---- MODULE Spec2Model ----
(***************************************************************************)
(* Uncle backend (Cloudflare Worker + Hono): bearer-token middleware, the  *)
(* D1 holdings table and the Tiingo price/news enrichment handlers.        *)
(*                                                                         *)
(* One request is in flight at a time; it advances through its awaits      *)
(* (token verification, D1 statement, provider fetch) as separate steps.   *)
(* The D1 binding is available: a statement fails only when a bound value  *)
(* has a type D1 rejects (undefined).  The issuer URL of the deployment is *)
(* a well-formed absolute URL.                                             *)
(***************************************************************************)
EXTENDS Integers, Sequences, FiniteSets, TLC

\* Largest row id the AUTOINCREMENT counter may hand out.
MaxRowId == 3

VARIABLES
    variant,        \* which app is deployed (fixed for a behaviour)
    holdingsTable,  \* schema.sql: the rows of table holdings, in rowid order
    lastRowId,      \* the AUTOINCREMENT counter of holdings.id
    pc,             \* where the request in flight stands
    req,            \* what the code has read of the request and of its environment
    user,           \* the context variable 'user' set by the middleware
    holdings,       \* the handler's local `holdings` (rows read from D1)
    events,         \* history: verification, D1 statements and provider fetches of this request
    resp,           \* the response returned for the request
    before,         \* history: holdingsTable when the request arrived
    ledger          \* history: (id, owner) acknowledged by 201 and not yet by a DELETE 200

vars == <<variant, holdingsTable, lastRowId, pc, req, user, holdings, events, resp, before, ledger>>

----------------------------------------------------------------------------
\* JavaScript values that cross the handlers

Undefined == [t |-> "undefined"]
Null == [t |-> "null"]
Unset == [t |-> "unset"]
Num(n) == [t |-> "number", finite |-> TRUE, v |-> n]
PosInfinity == [t |-> "number", finite |-> FALSE, v |-> 1]
Str(s) == [t |-> "string", v |-> s]
Obj(o) == [t |-> "object", v |-> o]
Fn == [t |-> "function"]

\* ToBoolean, as used by `!x` and `x || y`
Truthy(x) ==
    CASE x.t = "undefined" -> FALSE
      [] x.t = "null" -> FALSE
      [] x.t = "string" -> x.v # ""
      [] x.t = "number" -> (~x.finite) \/ x.v # 0
      [] OTHER -> TRUE

----------------------------------------------------------------------------
\* Responses

ErrorBody(msg) == [kind |-> "error", error |-> msg]
ErrorDetails(msg, details) == [kind |-> "error", error |-> msg, details |-> details]
Json(body, status) == [status |-> status, body |-> body]
NoResp == [status |-> 0, body |-> [kind |-> "none"]]

----------------------------------------------------------------------------
\* Deployments and routes

\* "clerk": the full Clerk app; "clerk-index": src/index.ts, the Clerk app
\* without the holdings routes; "keycloak": the Keycloak app.
Variants == {"clerk", "clerk-index", "keycloak"}

ProtectedRoutes(v) ==
    IF v = "clerk"
    THEN {"GET /api/private", "GET /api/search", "GET /api/holdings",
          "POST /api/holdings", "DELETE /api/holdings/:id", "GET /api/news"}
    ELSE {"GET /api/private"}

PublicRoutes(v) ==
    IF v = "keycloak" THEN {"GET /api/public"} ELSE {"GET /api/public", "GET /api/health"}

----------------------------------------------------------------------------
\* Bearer tokens and jose's jwtVerify

Issuer == "https://issuer.example"
Subjects == {"u1", "u2"}

GoodToken(sub) ==
    [wellFormed |-> TRUE, kid |-> "k1", sigOk |-> TRUE, iss |-> Issuer,
     expired |-> FALSE, sub |-> sub]

Tokens ==
    {GoodToken(Str(s)) : s \in Subjects} \cup
    {GoodToken(Undefined),
     [GoodToken(Str("u1")) EXCEPT !.wellFormed = FALSE],
     [GoodToken(Str("u1")) EXCEPT !.kid = "k9"],
     [GoodToken(Str("u1")) EXCEPT !.sigOk = FALSE],
     [GoodToken(Str("u2")) EXCEPT !.iss = "https://evil.example"],
     [GoodToken(Str("u2")) EXCEPT !.expired = TRUE]}

\* What the Authorization header looks like to the middleware: absent, another
\* scheme, a differently cased scheme, or 'Bearer ' followed by a token (the
\* token of the first three is never read).
AuthHeaders ==
    {[scheme |-> "missing", token |-> GoodToken(Undefined)],
     [scheme |-> "Basic ", token |-> GoodToken(Str("u1"))],
     [scheme |-> "bearer ", token |-> GoodToken(Str("u1"))]} \cup
    {[scheme |-> "Bearer ", token |-> t] : t \in Tokens}

\* Outcome of fetching the issuer's key set, and the keys it publishes.
JwksOutcomes == {"ok", "fetch_failed", "unparsable"}
PublishedKids == {"k1"}

\* !authHeader || !authHeader.startsWith('Bearer ')
HasBearer(authHeader) == authHeader.scheme = "Bearer "

jwtVerifyNoExpiry(token, jwks, issuer) ==
    CASE ~token.wellFormed -> [ok |-> FALSE, code |-> "ERR_JWS_INVALID"]
      [] jwks = "fetch_failed" -> [ok |-> FALSE, code |-> "ERR_JWKS_TIMEOUT"]
      [] jwks = "unparsable" -> [ok |-> FALSE, code |-> "ERR_JWKS_INVALID"]
      [] token.kid \notin PublishedKids -> [ok |-> FALSE, code |-> "ERR_JWKS_NO_MATCHING_KEY"]
      [] ~token.sigOk -> [ok |-> FALSE, code |-> "ERR_JWS_SIGNATURE_VERIFICATION_FAILED"]
      [] token.iss # issuer -> [ok |-> FALSE, code |-> "ERR_JWT_CLAIM_VALIDATION_FAILED"]
      [] OTHER -> [ok |-> TRUE, payload |-> [sub |-> token.sub, iss |-> token.iss]]

\* jwtVerify(token, JWKS, { issuer }): compact-JWS parse, key lookup in the
\* remote key set, signature, then the iss and exp claims.  No subject or
\* requiredClaims option is passed, so sub is not checked.
jwtVerify(token, jwks, issuer) ==
    CASE ~token.wellFormed -> [ok |-> FALSE, code |-> "ERR_JWS_INVALID"]
      [] jwks = "fetch_failed" -> [ok |-> FALSE, code |-> "ERR_JWKS_TIMEOUT"]
      [] jwks = "unparsable" -> [ok |-> FALSE, code |-> "ERR_JWKS_INVALID"]
      [] token.kid \notin PublishedKids -> [ok |-> FALSE, code |-> "ERR_JWKS_NO_MATCHING_KEY"]
      [] ~token.sigOk -> [ok |-> FALSE, code |-> "ERR_JWS_SIGNATURE_VERIFICATION_FAILED"]
      [] token.iss # issuer -> [ok |-> FALSE, code |-> "ERR_JWT_CLAIM_VALIDATION_FAILED"]
      [] token.expired -> [ok |-> FALSE, code |-> "ERR_JWT_EXPIRED"]
      [] OTHER -> [ok |-> TRUE, payload |-> [sub |-> token.sub, iss |-> token.iss]]

MissingTokenResponse == Json(ErrorBody("Unauthorized: Missing or invalid token"), 401)

InvalidTokenResponseLeaky(error) ==
    Json(ErrorDetails("Unauthorized: Invalid token", error.code), 401)

\* catch (error) { console.error(...); return c.json({ error: 'Unauthorized: Invalid token' }, 401) }
InvalidTokenResponse(error) == Json(ErrorBody("Unauthorized: Invalid token"), 401)

----------------------------------------------------------------------------
\* The D1 holdings table: rows in rowid order

Row(id, userId, symbol, name, shares, avgPrice) ==
    [id |-> id, user_id |-> userId, symbol |-> symbol, name |-> name,
     shares |-> shares, avg_price |-> avgPrice]

SelectAll(table, userId) == table

\* SELECT * FROM holdings WHERE user_id = ?
SelectByUser(table, userId) == SelectSeq(table, LAMBDA r : r.user_id = userId)

\* D1 rejects a bound undefined with D1_TYPE_ERROR before running the statement.
BindOk(values) == \A i \in 1..Len(values) : values[i].t # "undefined"

D1TypeError == "D1_TYPE_ERROR: Type 'undefined' not supported for value 'undefined'"

\* INSERT INTO holdings (...) VALUES (?, ?, ?, ?, ?) with the AUTOINCREMENT id
InsertRow(table, id, userId, body) ==
    Append(table, Row(id, userId, body.symbol.v, body.name.v, body.shares.v, body.avg_price.v))

\* The :id path parameter is text; the INTEGER PRIMARY KEY column gives it
\* integer affinity: numeric text compares as its integer, other text never
\* equals a rowid (-1 stands for "no integer").
IdParams == {ToString(i) : i \in 1..(MaxRowId + 1)} \cup {"abc"}

SqliteIntegerAffinity(text) ==
    IF \E i \in 0..(MaxRowId + 1) : ToString(i) = text
    THEN CHOOSE i \in 0..(MaxRowId + 1) : ToString(i) = text
    ELSE -1

DeleteById(table, id, userId) == SelectSeq(table, LAMBDA r : r.id # id)

\* DELETE FROM holdings WHERE id = ? AND user_id = ?
DeleteWhere(table, id, userId) ==
    SelectSeq(table, LAMBDA r : ~(r.id = id /\ r.user_id = userId))

----------------------------------------------------------------------------
\* POST /api/holdings bodies and validation

BaseBody == [symbol |-> Str("AAPL"), name |-> Str("Apple Inc."),
             shares |-> Num(10), avg_price |-> Num(150)]

ValidBodies ==
    {BaseBody,
     [symbol |-> Str("MSFT"), name |-> Str("Microsoft"), shares |-> Num(1), avg_price |-> Num(0)],
     [symbol |-> Str("constructor"), name |-> Str("Odd"), shares |-> Num(2), avg_price |-> Num(3)]}

InvalidBodies ==
    {[BaseBody EXCEPT !.symbol = x] : x \in {Undefined, Str("")}} \cup
    {[BaseBody EXCEPT !.name = x] : x \in {Undefined, Str("")}} \cup
    {[BaseBody EXCEPT !.shares = x] :
        x \in {Undefined, Null, Str("10"), Num(0), Num(-1), PosInfinity}} \cup
    {[BaseBody EXCEPT !.avg_price = x] :
        x \in {Undefined, Str("150"), Num(-1), PosInfinity}}

\* a request body that c.req.json() cannot parse
MalformedBody == [t |-> "malformed"]

Bodies == ValidBodies \cup InvalidBodies \cup {MalformedBody}

ValidateHoldingZeroShares(body) ==
    CASE ~Truthy(body.symbol) \/ ~Truthy(body.name)
           \/ body.shares = Undefined \/ body.avg_price = Undefined
           -> "Missing required fields: symbol, name, shares, avg_price"
      [] body.shares.t # "number" \/ body.avg_price.t # "number"
           -> "shares and avg_price must be numbers"
      [] ~body.shares.finite \/ ~body.avg_price.finite
           -> "shares and avg_price must be valid numbers"
      [] body.shares.v < 0 -> "shares must be greater than 0"
      [] body.avg_price.v < 0 -> "avg_price must be non-negative"
      [] OTHER -> ""

\* The validation ladder of app.post('/api/holdings'); "" when the body passes.
ValidateHolding(body) ==
    CASE ~Truthy(body.symbol) \/ ~Truthy(body.name)
           \/ body.shares = Undefined \/ body.avg_price = Undefined
           -> "Missing required fields: symbol, name, shares, avg_price"
      [] body.shares.t # "number" \/ body.avg_price.t # "number"
           -> "shares and avg_price must be numbers"
      [] ~body.shares.finite \/ ~body.avg_price.finite
           -> "shares and avg_price must be valid numbers"
      [] body.shares.v <= 0 -> "shares must be greater than 0"
      [] body.avg_price.v < 0 -> "avg_price must be non-negative"
      [] OTHER -> ""

----------------------------------------------------------------------------
\* Tiingo responses and the enrichment merge

Quote(ticker, last) == [ticker |-> ticker, last |-> Num(last)]

PriceArrays ==
    {<<>>,
     <<Quote("AAPL", 191)>>,
     <<Quote("AAPL", 0)>>,
     <<Quote("aapl", 191)>>,
     <<Quote("MSFT", 5), Quote("AAPL", 191)>>,
     <<Quote("AAPL", 191), Quote("AAPL", 7)>>}

\* What fetch() of the price URL can produce: a rejected promise, a
\* non-success response, or a success whose body is not JSON, is JSON but not
\* an array, or is an array of quotes.
PriceOutcomes ==
    {[kind |-> "rejected"],
     [kind |-> "response", ok |-> FALSE, json |-> [t |-> "nonarray"]],
     [kind |-> "response", ok |-> TRUE, json |-> [t |-> "invalid"]],
     [kind |-> "response", ok |-> TRUE, json |-> [t |-> "nonarray"]]} \cup
    {[kind |-> "response", ok |-> TRUE, json |-> [t |-> "array", v |-> a]] : a \in PriceArrays}

\* Search and news responses are passed through unread.
PassthroughOutcomes ==
    {[kind |-> "rejected"],
     [kind |-> "response", ok |-> FALSE, json |-> [t |-> "nonarray"]],
     [kind |-> "response", ok |-> TRUE, json |-> [t |-> "invalid"]],
     [kind |-> "response", ok |-> TRUE, json |-> [t |-> "array", v |-> <<>>]]}

\* [...new Set(holdings.map(h => h.symbol))]: first occurrences, in order
RECURSIVE UniqueSymbols(_)
UniqueSymbols(hs) ==
    IF hs = <<>> THEN <<>>
    ELSE LET front == UniqueSymbols(SubSeq(hs, 1, Len(hs) - 1))
             s == hs[Len(hs)].symbol
         IN IF \E i \in 1..Len(front) : front[i] = s THEN front ELSE Append(front, s)

EmptyMap == [x \in {} |-> Null]

\* priceData.forEach(item => { priceMap[item.ticker] = item })
RECURSIVE PriceMapOf(_)
PriceMapOf(priceData) ==
    IF priceData = <<>> THEN EmptyMap
    ELSE LET item == priceData[Len(priceData)]
         IN (item.ticker :> item) @@ PriceMapOf(SubSeq(priceData, 1, Len(priceData) - 1))

BuildPriceMap(json) == IF json.t = "array" THEN PriceMapOf(json.v) ELSE EmptyMap

\* priceMap is a plain object literal, so a key it does not own is looked up
\* on Object.prototype.
ObjectPrototypeKeys == {"constructor", "toString", "valueOf", "hasOwnProperty"}

PriceMapLookup(priceMap, symbol) ==
    IF symbol \in DOMAIN priceMap THEN Obj(priceMap[symbol])
    ELSE IF symbol \in ObjectPrototypeKeys THEN Fn
    ELSE Undefined

\* { ...holding, currentPrice: priceMap[symbol]?.last || null, priceData: priceMap[symbol] || null }
EnrichOne(holding, priceMap) ==
    LET entry == PriceMapLookup(priceMap, holding.symbol)
        last == IF entry.t = "object" THEN entry.v.last ELSE Undefined
    IN holding @@ [currentPrice |-> IF Truthy(last) THEN last ELSE Null,
                   priceData |-> IF Truthy(entry) THEN entry ELSE Null]

EnrichUnique(hs, priceMap) ==
    LET syms == UniqueSymbols(hs)
    IN [i \in 1..Len(syms) |->
          EnrichOne(hs[CHOOSE j \in 1..Len(hs) :
                          /\ hs[j].symbol = syms[i]
                          /\ \A k \in 1..(j - 1) : hs[k].symbol # syms[i]], priceMap)]

\* holdings.map(holding => ({ ...holding, currentPrice, priceData }))
Enrich(hs, priceMap) == [i \in 1..Len(hs) |-> EnrichOne(hs[i], priceMap)]

\* JSON.stringify leaves out a property whose value is a function or undefined.
JsonStringifyHolding(e) ==
    [k \in {k \in DOMAIN e : ~(k \in {"currentPrice", "priceData"}
                                   /\ e[k].t \in {"function", "undefined"})} |-> e[k]]

JsonArray(items) ==
    [kind |-> "array", items |-> [i \in 1..Len(items) |-> JsonStringifyHolding(items[i])]]

----------------------------------------------------------------------------
UnsetReq == [route |-> "none", authHeader |-> Unset, jwks |-> "unset",
             input |-> Unset, provider |-> Unset]

Init ==
    /\ variant \in Variants
    /\ holdingsTable = <<>>
    /\ lastRowId = 0
    /\ pc = "idle"
    /\ req = UnsetReq
    /\ user = Unset
    /\ holdings = <<>>
    /\ events = <<>>
    /\ resp = NoResp
    /\ before = <<>>
    /\ ledger = {}

\* A request arrives for one of the deployment's routes.
Receive ==
    /\ pc \in {"idle", "done"}
    /\ \E route \in ProtectedRoutes(variant) \cup PublicRoutes(variant) :
         /\ req' = [UnsetReq EXCEPT !.route = route]
         /\ pc' = IF route \in ProtectedRoutes(variant) THEN "auth" ELSE "public"
    /\ user' = Unset
    /\ holdings' = <<>>
    /\ events' = <<>>
    /\ resp' = NoResp
    /\ before' = holdingsTable
    /\ UNCHANGED <<variant, holdingsTable, lastRowId, ledger>>

Respond(r) == resp' = r /\ pc' = "done"

\* app.get('/api/public') and app.get('/api/health')
PublicHandler ==
    /\ pc = "public"
    /\ IF req.route = "GET /api/health"
       THEN /\ events' = Append(events, "d1")
            /\ Respond(Json([kind |-> "health", status |-> "ok"], 200))
       ELSE /\ events' = events
            /\ Respond(Json([kind |-> "message"], 200))
    /\ UNCHANGED <<variant, holdingsTable, lastRowId, req, user, holdings, before, ledger>>

\* authMiddleware of both deployments
AuthMiddleware ==
    /\ pc = "auth"
    /\ \E authHeader \in AuthHeaders, jwks \in JwksOutcomes :
         /\ req' = [req EXCEPT !.authHeader = authHeader, !.jwks = jwks]
         /\ IF ~HasBearer(authHeader)
            THEN /\ Respond(MissingTokenResponse)
                 /\ UNCHANGED <<user, events>>
            ELSE LET result == jwtVerify(authHeader.token, jwks, Issuer) IN
                 IF result.ok
                 THEN /\ user' = result.payload
                      /\ events' = Append(events, "verified")
                      /\ pc' = "handler"
                      /\ resp' = resp
                 ELSE /\ Respond(InvalidTokenResponse(result))
                      /\ UNCHANGED <<user, events>>
    /\ UNCHANGED <<variant, holdingsTable, lastRowId, holdings, before, ledger>>

\* app.get('/api/private'): echoes the verified payload
Private ==
    /\ pc = "handler"
    /\ req.route = "GET /api/private"
    /\ Respond(Json([kind |-> "identity", sub |-> user.sub], 200))
    /\ UNCHANGED <<variant, holdingsTable, lastRowId, req, user, holdings, events, before, ledger>>

\* app.get('/api/search')
Search ==
    /\ pc = "handler"
    /\ req.route = "GET /api/search"
    /\ \E query \in {Undefined, Str(""), Str("apple")}, outcome \in PassthroughOutcomes :
         IF ~Truthy(query)
         THEN /\ req' = [req EXCEPT !.input = [query |-> query]]
              /\ events' = events
              /\ Respond(Json(ErrorBody("Query parameter is required"), 400))
         ELSE /\ req' = [req EXCEPT !.input = [query |-> query], !.provider = outcome]
              /\ events' = Append(events, "provider")
              /\ Respond(CASE outcome.kind = "rejected"
                               -> Json(ErrorDetails("Search request failed", "fetch failed"), 500)
                            [] ~outcome.ok -> Json(ErrorBody("Failed to fetch search results"), 500)
                            [] outcome.json.t = "invalid"
                               -> Json(ErrorDetails("Search request failed", "Unexpected token"), 500)
                            [] OTHER -> Json([kind |-> "passthrough"], 200))
    /\ UNCHANGED <<variant, holdingsTable, lastRowId, user, holdings, before, ledger>>

\* app.get('/api/holdings') up to the D1 read
GetHoldingsQuery ==
    /\ pc = "handler"
    /\ req.route = "GET /api/holdings"
    /\ IF ~BindOk(<<user.sub>>)
       THEN /\ Respond(Json(ErrorDetails("Failed to fetch holdings", D1TypeError), 500))
            /\ UNCHANGED <<req, holdings, events>>
       ELSE LET result == SelectByUser(holdingsTable, user.sub.v) IN
            /\ holdings' = result
            /\ events' = Append(events, "d1")
            /\ IF Len(result) = 0
               THEN /\ Respond(Json(JsonArray(<<>>), 200))
                    /\ req' = req
               ELSE /\ pc' = "fetch"
                    /\ resp' = resp
                    /\ req' = [req EXCEPT !.input = [tickers |-> UniqueSymbols(result)]]
    /\ UNCHANGED <<variant, holdingsTable, lastRowId, user, before, ledger>>

\* app.get('/api/holdings') from the price fetch to the response
GetHoldingsFetch ==
    /\ pc = "fetch"
    /\ req.route = "GET /api/holdings"
    /\ \E outcome \in PriceOutcomes :
         /\ req' = [req EXCEPT !.provider = outcome]
         /\ events' = Append(events, "provider")
         /\ Respond(CASE outcome.kind = "rejected"
                          -> Json(ErrorDetails("Failed to fetch holdings", "fetch failed"), 500)
                       [] ~outcome.ok -> Json(JsonArray(holdings), 200)
                       [] outcome.json.t = "invalid"
                          -> Json(ErrorDetails("Failed to fetch holdings", "Unexpected token"), 500)
                       [] OTHER
                          -> Json(JsonArray(Enrich(holdings, BuildPriceMap(outcome.json))), 200))
    /\ UNCHANGED <<variant, holdingsTable, lastRowId, user, holdings, before, ledger>>

\* app.post('/api/holdings')
PostHoldings ==
    /\ pc = "handler"
    /\ req.route = "POST /api/holdings"
    /\ \E body \in Bodies :
         /\ req' = [req EXCEPT !.input = body]
         /\ IF body = MalformedBody
            THEN /\ Respond(Json(ErrorDetails("Failed to create holding", "Unexpected token"), 500))
                 /\ UNCHANGED <<holdingsTable, lastRowId, events, ledger>>
            ELSE IF ValidateHolding(body) # ""
            THEN /\ Respond(Json(ErrorBody(ValidateHolding(body)), 400))
                 /\ UNCHANGED <<holdingsTable, lastRowId, events, ledger>>
            ELSE IF ~BindOk(<<user.sub, body.symbol, body.name, body.shares, body.avg_price>>)
            THEN /\ Respond(Json(ErrorDetails("Failed to create holding", D1TypeError), 500))
                 /\ UNCHANGED <<holdingsTable, lastRowId, events, ledger>>
            ELSE /\ lastRowId < MaxRowId
                 /\ lastRowId' = lastRowId + 1
                 /\ holdingsTable' = InsertRow(holdingsTable, lastRowId + 1, user.sub.v, body)
                 /\ events' = Append(events, "d1")
                 /\ ledger' = ledger \cup {[id |-> lastRowId + 1, owner |-> user.sub.v]}
                 /\ Respond(Json([kind |-> "created", success |-> TRUE, id |-> lastRowId + 1], 201))
    /\ UNCHANGED <<variant, user, holdings, before>>

\* app.delete('/api/holdings/:id')
DeleteHoldings ==
    /\ pc = "handler"
    /\ req.route = "DELETE /api/holdings/:id"
    /\ \E id \in IdParams :
         /\ req' = [req EXCEPT !.input = [id |-> id]]
         /\ IF ~BindOk(<<Str(id), user.sub>>)
            THEN /\ Respond(Json(ErrorDetails("Failed to delete holding", D1TypeError), 500))
                 /\ UNCHANGED <<holdingsTable, events, ledger>>
            ELSE LET after == DeleteWhere(holdingsTable, SqliteIntegerAffinity(id), user.sub.v)
                     changes == Len(holdingsTable) - Len(after)
                 IN /\ holdingsTable' = after
                    /\ events' = Append(events, "d1")
                    /\ IF changes = 0
                       THEN /\ Respond(Json(ErrorBody("Holding not found or unauthorized"), 404))
                            /\ ledger' = ledger
                       ELSE /\ Respond(Json([kind |-> "deleted", success |-> TRUE], 200))
                            /\ ledger' = ledger \ {[id |-> SqliteIntegerAffinity(id),
                                                      owner |-> user.sub.v]}
    /\ UNCHANGED <<variant, lastRowId, user, holdings, before>>

\* app.get('/api/news') up to the D1 read
GetNewsQuery ==
    /\ pc = "handler"
    /\ req.route = "GET /api/news"
    /\ IF ~BindOk(<<user.sub>>)
       THEN /\ Respond(Json(ErrorDetails("Failed to fetch news", D1TypeError), 500))
            /\ UNCHANGED <<req, holdings, events>>
       ELSE LET syms == UniqueSymbols(SelectByUser(holdingsTable, user.sub.v)) IN
            /\ holdings' = [i \in 1..Len(syms) |-> [symbol |-> syms[i]]]
            /\ events' = Append(events, "d1")
            /\ IF Len(syms) = 0
               THEN /\ Respond(Json(JsonArray(<<>>), 200))
                    /\ req' = req
               ELSE /\ pc' = "fetch"
                    /\ resp' = resp
                    /\ req' = [req EXCEPT !.input = [tickers |-> syms]]
    /\ UNCHANGED <<variant, holdingsTable, lastRowId, user, before, ledger>>

\* app.get('/api/news') from the news fetch to the response
GetNewsFetch ==
    /\ pc = "fetch"
    /\ req.route = "GET /api/news"
    /\ \E outcome \in PassthroughOutcomes :
         /\ req' = [req EXCEPT !.provider = outcome]
         /\ events' = Append(events, "provider")
         /\ Respond(CASE outcome.kind = "rejected"
                          -> Json(ErrorDetails("Failed to fetch news", "fetch failed"), 500)
                       [] ~outcome.ok -> Json(ErrorBody("Failed to fetch news"), 500)
                       [] outcome.json.t = "invalid"
                          -> Json(ErrorDetails("Failed to fetch news", "Unexpected token"), 500)
                       [] OTHER -> Json([kind |-> "passthrough"], 200))
    /\ UNCHANGED <<variant, holdingsTable, lastRowId, user, holdings, before, ledger>>

Next ==
    \/ Receive
    \/ PublicHandler
    \/ AuthMiddleware
    \/ Private
    \/ Search
    \/ GetHoldingsQuery
    \/ GetHoldingsFetch
    \/ PostHoldings
    \/ DeleteHoldings
    \/ GetNewsQuery
    \/ GetNewsFetch

Spec == Init /\ [][Next]_vars

----------------------------------------------------------------------------
\* Vocabulary of the properties

Done == pc = "done"
Protected == req.route \in ProtectedRoutes(variant)
HeaderRead == req.authHeader # Unset
HasSubject == user # Unset /\ user.sub.t = "string"

\* The request carries "Bearer <token>" and the token is one the issuer's
\* published keys vouch for: well formed, known key, good signature, the
\* configured issuer, unexpired, and the key set could be fetched and parsed.
TokenValid ==
    /\ HeaderRead
    /\ req.authHeader.scheme = "Bearer "
    /\ req.authHeader.token.wellFormed
    /\ req.jwks = "ok"
    /\ req.authHeader.token.kid \in PublishedKids
    /\ req.authHeader.token.sigOk
    /\ req.authHeader.token.iss = Issuer
    /\ ~req.authHeader.token.expired

Accessed == \E i \in 1..Len(events) : events[i] \in {"d1", "provider"}

HoldingFields == {"id", "user_id", "symbol", "name", "shares", "avg_price"}

Ids(rows) == [i \in 1..Len(rows) |-> rows[i].id]

ListDone == Done /\ req.route = "GET /api/holdings"
ListOk == ListDone /\ resp.status = 200

C2_ListIsOwnersHoldings ==
    (ListDone /\ HasSubject) =>
      LET mine == {e \in ledger : e.owner = user.sub.v} IN
      /\ mine = {} => (resp.status = 200 /\ resp.body.items = <<>>)
      /\ resp.status = 200 =>
           /\ resp.body.kind = "array"
           /\ {resp.body.items[i].id : i \in 1..Len(resp.body.items)} = {e.id : e \in mine}
           /\ Len(resp.body.items) = Cardinality(mine)
           /\ \A i \in 1..Len(resp.body.items) : resp.body.items[i].user_id = user.sub.v

C2_Witness ==
    /\ ListOk
    /\ user.sub = Str("u2")
    /\ resp.body.items = <<>>
    /\ \E e \in ledger : e.owner = "u1"

\* C3: DELETE by s of an id that another subject owns answers exactly what
\* DELETE of an id nobody owns answers (404, same body) and leaves the table
\* as it was; a DELETE whose (id, owner) matches removes that row and no other.
C3_DeleteForeignIsNotFound ==
    (Done /\ req.route = "DELETE /api/holdings/:id" /\ HasSubject) =>
      LET id == SqliteIntegerAffinity(req.input.id)
          matches == {i \in 1..Len(before) : before[i].id = id /\ before[i].user_id = user.sub.v}
      IN IF matches = {}
         THEN /\ resp = Json(ErrorBody("Holding not found or unauthorized"), 404)
              /\ holdingsTable = before
         ELSE /\ resp.status = 200
              /\ Len(holdingsTable) = Len(before) - 1
              /\ \A i \in 1..Len(before) :
                   (before[i].id # id) => \E j \in 1..Len(holdingsTable) : holdingsTable[j] = before[i]
              /\ \A j \in 1..Len(holdingsTable) : holdingsTable[j].id # id

C3_Witness ==
    /\ Done
    /\ req.route = "DELETE /api/holdings/:id"
    /\ HasSubject
    /\ user.sub = Str("u1")
    /\ \E i \in 1..Len(before) :
         /\ before[i].id = SqliteIntegerAffinity(req.input.id)
         /\ before[i].user_id = "u2"
    /\ resp.status = 404
    /\ holdingsTable = before

\* What the creation contract calls an unacceptable body, and an acceptable one.
BodyRejected(b) ==
    \/ b.symbol \in {Undefined, Str("")}
    \/ b.name \in {Undefined, Str("")}
    \/ b.shares.t # "number"
    \/ b.avg_price.t # "number"
    \/ (b.shares.t = "number" /\ b.shares.finite /\ b.shares.v <= 0)
    \/ (b.avg_price.t = "number" /\ b.avg_price.finite /\ b.avg_price.v < 0)

BodyAccepted(b) ==
    /\ b.symbol.t = "string" /\ b.symbol.v # ""
    /\ b.name.t = "string" /\ b.name.v # ""
    /\ b.shares.t = "number" /\ b.shares.finite /\ b.shares.v > 0
    /\ b.avg_price.t = "number" /\ b.avg_price.finite /\ b.avg_price.v >= 0

ProviderFailed ==
    /\ req.provider # Unset
    /\ \/ req.provider.kind = "rejected"
       \/ ~req.provider.ok
       \/ req.provider.json.t \in {"invalid", "nonarray"}

\* C5: GET /api/holdings by a subject owning a holding answers 200 with all
\* of the subject's holdings whatever the price provider does: fetch rejected,
\* non-success status, or unusable body.
C5_ProviderFailureAbsorbed ==
    (ListDone /\ HasSubject /\ Len(holdings) > 0 /\ ProviderFailed) =>
      /\ resp.status = 200
      /\ resp.body.kind = "array"
      /\ Ids(resp.body.items) = Ids(holdings)

\* C6: every holding in every 200 answer of GET /api/holdings carries both
\* the currentPrice and the priceData field (a value or null).
C6_PriceFieldsAlwaysPresent ==
    ListOk =>
      \A i \in 1..Len(resp.body.items) :
        {"currentPrice", "priceData"} \subseteq DOMAIN resp.body.items[i]

\* C7: after a successful price fetch, a holding whose symbol equals a
\* returned ticker exactly has currentPrice = that quote's last (0 included)
\* and priceData = the quote; any other holding has both null; currentPrice
\* is null exactly when priceData is null.
C7_MergeByExactSymbol ==
    (ListOk /\ req.provider # Unset /\ req.provider.kind = "response"
            /\ req.provider.ok /\ req.provider.json.t = "array") =>
      LET quotes == req.provider.json.v IN
      \A i \in 1..Len(resp.body.items) :
        LET item == resp.body.items[i] IN
        /\ {"currentPrice", "priceData"} \subseteq DOMAIN item
        /\ IF \E q \in 1..Len(quotes) : quotes[q].ticker = item.symbol
           THEN \E q \in 1..Len(quotes) :
                  /\ quotes[q].ticker = item.symbol
                  /\ item.currentPrice = quotes[q].last
                  /\ item.priceData = Obj(quotes[q])
           ELSE item.currentPrice = Null /\ item.priceData = Null
        /\ (item.currentPrice = Null) <=> (item.priceData = Null)

\* C8: the 200 answer of GET /api/holdings has as many elements as the rows
\* read from the table, and its i-th element carries the id and every stored
\* attribute of the i-th row unchanged.
C8_EnrichPreservesOrder ==
    ListOk =>
      /\ Len(resp.body.items) = Len(holdings)
      /\ \A i \in 1..Len(holdings) :
           \A k \in HoldingFields : resp.body.items[i][k] = holdings[i][k]

C8_Witness ==
    /\ ListOk
    /\ Len(holdings) >= 2
    /\ \E i, j \in 1..Len(holdings) : i < j /\ holdings[i].symbol = holdings[j].symbol
    /\ req.provider.kind = "response"
    /\ req.provider.ok
    /\ req.provider.json.t = "array"
    /\ \E i \in 1..Len(resp.body.items) :
         /\ "currentPrice" \in DOMAIN resp.body.items[i]
         /\ resp.body.items[i].currentPrice # Null

C10_SubjectMandatory ==
    /\ (Done /\ Protected /\ HeaderRead /\ req.authHeader.scheme = "Bearer "
             /\ req.authHeader.token.sub = Undefined) => resp.status = 401
    /\ user # Unset => (user.sub # Undefined /\ user.sub = req.authHeader.token.sub)

====
